---- MODULE Spec2Model ----
(***************************************************************************)
(* HTY tables: the analyzer (src/src/analyze.cpp) modelled as a state      *)
(* machine over a small file system.                                       *)
(*                                                                         *)
(* A file is a sequence of 4-byte cells (the float data) followed by the   *)
(* metadata text and its 4-byte length.  Byte offsets are kept in bytes,   *)
(* as in the code.  A float is an integer number of units of 2^-21, so     *)
(* that the ordering comparisons are exact and EPSILON = 1e-6f, which lies *)
(* strictly between 2 and 3 units, is visible to the model.                *)
(***************************************************************************)
EXTENDS Integers, Sequences, FiniteSets, TLC

VARIABLES fs, last

vars == <<fs, last>>

----------------------------------------------------------------------------
(* Bounds of the model *)

\* largest num_rows a table of the model may have
MaxRows == 3
\* largest number of rows passed to one add_row call
MaxNewRows == 2
\* floats of the model are 0..MaxVal units
MaxVal == 4

----------------------------------------------------------------------------
(* Program constants *)

sizeof_float == 4
sizeof_int == 4

GREATER_THAN == 0
GREATER_EQUAL == 1
LESS_THAN == 2
LESS_EQUAL == 3
EQUAL == 4
NOT_EQUAL == 5

\* EPSILON = 1e-6f is 2.097... units of 2^-21: |d| < EPSILON iff |d| < 3 units
EPSILON == 3

DEFAULT_FLOAT_TYPE == "float"

----------------------------------------------------------------------------
(* Values *)

Float == 0..MaxVal

\* a float read from bytes that were not written as one float (metadata text,
\* the length trailer): some bit pattern outside the values of the model
JunkFloat == MaxVal + 1

\* the value of a zero-filled float (std::vector's value-initialisation)
ZeroFloat == 0

Paths == {"p1", "p2"}

\* a path that cannot be opened for writing (e.g. in a missing directory)
BadPath == "nodir/p"

Abs(x) == IF x < 0 THEN -x ELSE x

Min(S) == CHOOSE x \in S : \A y \in S : x <= y

RECURSIVE Digits(_)
Digits(n) == IF n < 10 THEN 1 ELSE 1 + Digits(n \div 10)

RECURSIVE Concat(_)
Concat(ss) == IF ss = <<>> THEN <<>> ELSE Head(ss) \o Concat(Tail(ss))

----------------------------------------------------------------------------
(* Metadata and files *)

Column(name) == [column_name |-> name, column_type |-> DEFAULT_FLOAT_TYPE]

Group(names, offset) ==
    [num_columns |-> Len(names),
     offset      |-> offset,
     columns     |-> [j \in 1..Len(names) |-> Column(names[j])]]

EmptyMeta == [num_rows |-> 0, num_groups |-> 0, groups |-> <<>>]

----------------------------------------------------------------------------
(* Metadata text.  The compact JSON text nlohmann::json writes and reads, *)
(* token by token: punctuation and null, quoted strings, decimal numbers.  *)

Punct(s) == [t |-> "punct", s |-> s, n |-> 0]
Str(s)   == [t |-> "string", s |-> s, n |-> 0]
Num(n)   == [t |-> "number", s |-> "", n |-> n]

\* bytes that are not text: the bytes of floats, or the zeros of a buffer no
\* read filled
RawBytes == Punct("raw")

\* the bytes of a token: a string is written between quotes
TokLen(tok) ==
    CASE tok.t = "punct"  -> Len(tok.s)
      [] tok.t = "string" -> Len(tok.s) + 2
      [] tok.t = "number" -> Digits(tok.n)

\* the bytes of the tokens k.. of text
RECURSIVE TextLenFrom(_, _)
TextLenFrom(text, k) ==
    IF k > Len(text) THEN 0 ELSE TokLen(text[k]) + TextLenFrom(text, k + 1)

TextLen(text) == TextLenFrom(text, 1)

\* a text: its tokens, and its size in bytes as std::string keeps it
Text(toks) == [toks |-> toks, size |-> TextLen(toks)]

NoText == Text(<<>>)

\* dump() of one column object; the keys of an object come out in
\* alphabetical order
dump_column(column) ==
    << Punct("{"), Str("column_name"), Punct(":"), Str(column.column_name), Punct(","),
       Str("column_type"), Punct(":"), Str(column.column_type), Punct("}") >>

RECURSIVE dump_columns(_, _)
dump_columns(columns, n) ==
    IF n = 0 THEN <<>>
    ELSE dump_columns(columns, n - 1) \o (IF n > 1 THEN <<Punct(",")>> ELSE <<>>)
         \o dump_column(columns[n])

\* dump() of one group object.  A list nothing was pushed to is the null
\* value a json starts as, and is written as null
dump_group(group) ==
    << Punct("{"), Str("columns"), Punct(":") >>
    \o (IF group.columns = <<>> THEN <<Punct("null")>>
        ELSE <<Punct("[")>> \o dump_columns(group.columns, Len(group.columns))
             \o <<Punct("]")>>)
    \o << Punct(","), Str("num_columns"), Punct(":"), Num(group.num_columns), Punct(","),
          Str("offset"), Punct(":"), Num(group.offset), Punct("}") >>

RECURSIVE dump_groups(_, _)
dump_groups(groups, n) ==
    IF n = 0 THEN <<>>
    ELSE dump_groups(groups, n - 1) \o (IF n > 1 THEN <<Punct(",")>> ELSE <<>>)
         \o dump_group(groups[n])

\* metadata.dump()
dump(metadata) ==
    << Punct("{"), Str("groups"), Punct(":") >>
    \o (IF metadata.groups = <<>> THEN <<Punct("null")>>
        ELSE <<Punct("[")>> \o dump_groups(metadata.groups, Len(metadata.groups))
             \o <<Punct("]")>>)
    \o << Punct(","), Str("num_groups"), Punct(":"), Num(metadata.num_groups), Punct(","),
          Str("num_rows"), Punct(":"), Num(metadata.num_rows), Punct("}") >>

IsPunct(text, i, s) == i <= Len(text) /\ text[i].t = "punct" /\ text[i].s = s

ParseError == [ok |-> FALSE, val |-> <<>>, next |-> 0]

\* json::parse from token i of text: the value read and the token after it.
\* An object is the function from its keys to their values (a key written
\* twice keeps its last value), an array the sequence of its elements; null,
\* the empty object and the empty array are the values empty() is true of
RECURSIVE parse_value(_, _)
RECURSIVE parse_members(_, _, _)
RECURSIVE parse_elements(_, _, _)
parse_value(text, i) ==
    IF i > Len(text) THEN ParseError
    ELSE CASE text[i].t = "number" -> [ok |-> TRUE, val |-> text[i].n, next |-> i + 1]
           [] text[i].t = "string" -> [ok |-> TRUE, val |-> text[i].s, next |-> i + 1]
           [] IsPunct(text, i, "null") -> [ok |-> TRUE, val |-> <<>>, next |-> i + 1]
           [] IsPunct(text, i, "{") ->
                IF IsPunct(text, i + 1, "}") THEN [ok |-> TRUE, val |-> <<>>, next |-> i + 2]
                ELSE parse_members(text, i + 1, <<>>)
           [] IsPunct(text, i, "[") ->
                IF IsPunct(text, i + 1, "]") THEN [ok |-> TRUE, val |-> <<>>, next |-> i + 2]
                ELSE parse_elements(text, i + 1, <<>>)
           [] OTHER -> ParseError

\* the members of an object from token i, a key expected there
parse_members(text, i, object) ==
    IF ~(i <= Len(text) /\ text[i].t = "string" /\ IsPunct(text, i + 1, ":")) THEN ParseError
    ELSE LET member == parse_value(text, i + 2) IN
         IF ~member.ok THEN ParseError
         ELSE LET with == (text[i].s :> member.val) @@ object IN
              IF IsPunct(text, member.next, ",") THEN parse_members(text, member.next + 1, with)
              ELSE IF IsPunct(text, member.next, "}")
              THEN [ok |-> TRUE, val |-> with, next |-> member.next + 1]
              ELSE ParseError

\* the elements of an array from token i, a value expected there
parse_elements(text, i, array) ==
    LET element == parse_value(text, i) IN
    IF ~element.ok THEN ParseError
    ELSE LET with == Append(array, element.val) IN
         IF IsPunct(text, element.next, ",") THEN parse_elements(text, element.next + 1, with)
         ELSE IF IsPunct(text, element.next, "]")
         THEN [ok |-> TRUE, val |-> with, next |-> element.next + 1]
         ELSE ParseError

\* json::parse(metadata_str): the whole text must be one value
parse(text) ==
    LET value == parse_value(text, 1) IN
    IF value.ok /\ value.next = Len(text) + 1 THEN value ELSE ParseError

----------------------------------------------------------------------------
(* Files: floats, then the metadata text, then the 4-byte metadata size *)

NoFile == [exists |-> FALSE, data |-> <<>>, text |-> NoText, trailer |-> <<>>]

\* an output file just opened with std::ios::trunc
TruncatedFile == [exists |-> TRUE, data |-> <<>>, text |-> NoText, trailer |-> <<>>]

\* a writer that counts the 4 bytes of the size itself into the size
WrittenFile_SizeWithItself(data, metadata) ==
    LET metadata_str == Text(dump(metadata)) IN
    [exists |-> TRUE, data |-> data, text |-> metadata_str,
     trailer |-> <<metadata_str.size + sizeof_int>>]

\* the file a writer leaves: the floats, metadata_str = metadata.dump(), and
\* metadata_str.size() as an int
WrittenFile(data, metadata) ==
    LET metadata_str == Text(dump(metadata)) IN
    [exists |-> TRUE, data |-> data, text |-> metadata_str,
     trailer |-> <<metadata_str.size>>]

FileSize(f) ==
    sizeof_float * Len(f.data) + f.text.size + sizeof_int * Len(f.trailer)

\* an int past the size of every file of the model
JunkInt == sizeof_float * 1024

\* the int made of the last 4 bytes of a file of at least 4 bytes: the
\* trailer when the file has one; else the bits of a float, 0 for 0.0f, or
\* bytes of text, which spell a large int
LastInt(f) ==
    IF f.trailer # <<>> THEN f.trailer[1]
    ELSE IF f.text = NoText /\ f.data[Len(f.data)] = ZeroFloat THEN 0
    ELSE JunkInt

\* a reader that takes the whole text of the file, whatever the size says
metadata_buffer_WholeText(f, failed, metadata_size) ==
    IF failed THEN <<RawBytes>> ELSE f.text.toks

\* the token of text at which its last size bytes start, walking back from
\* token k; 0 when they start inside a token or before the text
RECURSIVE TailStart(_, _, _)
TailStart(text, k, size) ==
    IF size = 0 THEN k + 1
    ELSE IF k = 0 \/ TokLen(text[k]) > size THEN 0
    ELSE TailStart(text, k - 1, size - TokLen(text[k]))

\* metadata_buffer after seekg(-4 - metadata_size, end) and read on a stream
\* whose failbit is `failed`: nothing but zeros when the seek or an earlier
\* read failed; else the metadata_size bytes before the last 4, which are
\* tokens of the text when they start at a token of it
metadata_buffer(f, failed, metadata_size) ==
    IF metadata_size = 0 THEN <<>>
    ELSE IF failed \/ sizeof_int + metadata_size > FileSize(f) \/ f.trailer = <<>>
    THEN <<RawBytes>>
    ELSE LET start == TailStart(f.text.toks, Len(f.text.toks), metadata_size) IN
         IF start = 0 THEN <<RawBytes>> \o f.text.toks
         ELSE SubSeq(f.text.toks, start, Len(f.text.toks))

\* the body of extract_metadata on an opened file.  A file shorter than 4
\* bytes fails the first seek: metadata_size keeps the value it was declared
\* with, uninit, and no later read happens.  A negative size makes the
\* buffer's constructor throw; the json is the empty one (EmptyMeta) whenever
\* an exception was caught
decode(f, uninit) ==
    LET failed        == FileSize(f) < sizeof_int
        metadata_size == IF failed THEN uninit ELSE LastInt(f)
    IN  IF metadata_size < 0 THEN EmptyMeta
        ELSE LET json == parse(metadata_buffer(f, failed, metadata_size)) IN
             IF json.ok /\ json.val # <<>> THEN json.val ELSE EmptyMeta

\* the metadata the analyzer reads from file f
Decoded(f) == IF f.exists THEN decode(f, 0) ELSE EmptyMeta

\* the float made of the 4 bytes at byte b of file f (b + 4 <= FileSize(f))
CellAt(f, b) ==
    IF b >= 0 /\ b % sizeof_float = 0 /\ b + sizeof_float <= sizeof_float * Len(f.data)
    THEN f.data[(b \div sizeof_float) + 1]
    ELSE JunkFloat

----------------------------------------------------------------------------
(* Input streams.  Once a read hits the end of the file the stream's failbit *)
(* stays set: every later seekg and read on it does nothing.               *)

\* file.seekg(b); file.read(&target, sizeof(float)) on a stream whose failbit
\* is `failed`, the target holding `old`; a seekg before the start of the
\* file fails and sets the failbit
ReadFloat(f, failed, b, old) ==
    IF failed \/ b < 0 THEN [val |-> old, failed |-> TRUE]
    ELSE IF b + sizeof_float <= FileSize(f) THEN [val |-> CellAt(f, b), failed |-> FALSE]
    ELSE IF b < FileSize(f) THEN [val |-> JunkFloat, failed |-> TRUE]
    ELSE [val |-> old, failed |-> TRUE]

\* input_file.seekg(off); input_file.read(buffer.data(), size) into a
\* zero-filled buffer of size bytes, seen as size/4 floats
ReadBlock(f, failed, off, size) ==
    [cells |-> [k \in 1..(size \div sizeof_float) |->
                  LET b == off + (k - 1) * sizeof_float IN
                  IF failed \/ off < 0 THEN ZeroFloat
                  ELSE IF b + sizeof_float <= FileSize(f) THEN CellAt(f, b)
                  ELSE IF b < FileSize(f) THEN JunkFloat
                  ELSE ZeroFloat],
     failed |-> failed \/ off < 0 \/ (size > 0 /\ off + size > FileSize(f))]

----------------------------------------------------------------------------
(* Tables of the initial file system *)

\* the column names of each group, group by group
Schemas ==
    { << <<"a", "b">> >>,
      << <<"a">>, <<"b", "c">> >>,
      << <<"a">>, <<"b">>, <<"c">> >>,
      << <<"a", "b">>, <<"a">> >>,
      << <<"a", "a">> >>,
      << <<"a", "">> >> }

RECURSIVE SchemaWidth(_, _)
SchemaWidth(schema, n) ==
    IF n = 0 THEN 0 ELSE SchemaWidth(schema, n - 1) + Len(schema[n])

\* the value stored at row r, column c (both from 0) of the group whose first
\* logical column is sc, in a table of w logical columns
InitVal(pat, w, sc, r, c) == (pat + r * w + sc + c) % (MaxVal + 1)

InitBlock(schema, g, nr, pat) ==
    LET nc == Len(schema[g])
        w  == SchemaWidth(schema, Len(schema))
        sc == SchemaWidth(schema, g - 1)
    IN  [k \in 1..(nr * nc) |-> InitVal(pat, w, sc, (k - 1) \div nc, (k - 1) % nc)]

\* the groups in the order ord in which the file stores them, each preceded by
\* pad unused cells
RECURSIVE LaidOut(_, _, _, _, _, _)
LaidOut(schema, nr, pat, ord, pad, n) ==
    IF n = 0 THEN [data |-> <<>>, offset |-> [g \in {} |-> 0]]
    ELSE LET prev == LaidOut(schema, nr, pat, ord, pad, n - 1)
             g    == ord[n]
             at   == Len(prev.data) + pad
         IN  [data   |-> prev.data \o [k \in 1..pad |-> MaxVal]
                         \o InitBlock(schema, g, nr, pat),
              offset |-> [h \in DOMAIN prev.offset \cup {g} |->
                            IF h = g THEN sizeof_float * at ELSE prev.offset[h]]]

Table(schema, nr, pat, ord, pad) ==
    LET lay == LaidOut(schema, nr, pat, ord, pad, Len(schema)) IN
    WrittenFile(lay.data,
                [num_rows   |-> nr,
                 num_groups |-> Len(schema),
                 groups     |-> [g \in 1..Len(schema) |-> Group(schema[g], lay.offset[g])]])

InOrder(schema) == [g \in 1..Len(schema) |-> g]
Reversed(schema) == [g \in 1..Len(schema) |-> Len(schema) + 1 - g]

\* tables as the format describes them: contiguous from byte 0, or the same
\* groups stored in another order or with unused cells between them
WellFormedTables ==
    { Table(schema, nr, pat, InOrder(schema), 0) :
        schema \in Schemas, nr \in 0..MaxRows, pat \in 0..1 }
    \cup
    { Table(schema, nr, pat, Reversed(schema), 0) :
        schema \in Schemas, nr \in 1..(MaxRows - 1), pat \in {0} }
    \cup
    { Table(schema, nr, pat, InOrder(schema), 1) :
        schema \in Schemas, nr \in 1..(MaxRows - 1), pat \in {1} }

\* an offset past the end of every file of the model
FarOffset == sizeof_float * 1024

\* files whose metadata promises more than the data holds: one row more than
\* stored, and group offsets past the end of the file
BrokenTables ==
    { WrittenFile(t.data, [Decoded(t) EXCEPT !.num_rows = @ + 1]) :
        t \in {Table(schema, 1, 1, InOrder(schema), 0) : schema \in Schemas} }
    \cup
    { WrittenFile(t.data, [Decoded(t) EXCEPT
                             !.groups = [g \in DOMAIN @ |->
                                           [@[g] EXCEPT !.offset = @ + FarOffset]]]) :
        t \in {Table(schema, 2, 1, InOrder(schema), 0) : schema \in Schemas} }

InitTables == WellFormedTables \cup BrokenTables

\* the layout the format asks for: every group's block is float-aligned and
\* inside the data, and no two blocks overlap
WellFormed(f) ==
    LET m == Decoded(f)
        size(g) == m.num_rows * m.groups[g].num_columns * sizeof_float
    IN  /\ f.exists /\ m # EmptyMeta
        /\ m.num_rows >= 0
        /\ m.num_groups = Len(m.groups)
        /\ \A g \in 1..Len(m.groups) :
             /\ m.groups[g].num_columns = Len(m.groups[g].columns)
             /\ m.groups[g].offset % sizeof_float = 0
             /\ m.groups[g].offset >= 0
             /\ m.groups[g].offset + size(g) <= sizeof_float * Len(f.data)
        /\ \A g, h \in 1..Len(m.groups) :
             g < h => \/ m.groups[g].offset + size(g) <= m.groups[h].offset
                      \/ m.groups[h].offset + size(h) <= m.groups[g].offset
                      \/ size(g) = 0 \/ size(h) = 0

----------------------------------------------------------------------------
(* ColumnLocator, ProjectionEngine, FilterEngine *)

\* a scan that keeps the last match instead of returning at the first
get_column_info_LastMatch(metadata, column_name) ==
    IF column_name = "" THEN <<-1, -1>>
    ELSE LET hits == { i \in 0..(metadata.num_groups - 1) :
                         \E j \in 1..Len(metadata.groups[i + 1].columns) :
                            metadata.groups[i + 1].columns[j].column_name = column_name }
         IN  IF hits = {} THEN <<-1, -1>>
             ELSE LET i    == CHOOSE h \in hits : \A k \in hits : k <= h
                      cols == metadata.groups[i + 1].columns
                      js   == { j \in 0..(Len(cols) - 1) : cols[j + 1].column_name = column_name }
                  IN  <<i, CHOOSE j \in js : \A k \in js : k <= j>>

\* <<group_index, column_index>>, both from 0; <<-1, -1>> when not found
get_column_info(metadata, column_name) ==
    IF column_name = "" THEN <<-1, -1>>
    ELSE LET hits == { i \in 0..(metadata.num_groups - 1) :
                         \E j \in 1..Len(metadata.groups[i + 1].columns) :
                            metadata.groups[i + 1].columns[j].column_name = column_name }
         IN  IF hits = {} THEN <<-1, -1>>
             ELSE LET i    == Min(hits)
                      cols == metadata.groups[i + 1].columns
                  IN  <<i, Min({ j \in 0..(Len(cols) - 1) :
                                   cols[j + 1].column_name = column_name })>>

\* a reader that forgets the size of a float
FloatOffset_NoSize(offset, row, num_columns, column_index) ==
    offset + (row * num_columns + column_index)

\* the byte at which the readers seek the float of a row and a column of a
\* group stored at offset
FloatOffset(offset, row, num_columns, column_index) ==
    offset + (row * num_columns + column_index) * sizeof_float

\* the read loop of project_single_column after n rows: the values read and
\* the stream's failbit; result was resized, so an unread element is zero
RECURSIVE project_rows(_, _, _, _, _)
project_rows(f, offset, num_columns, column_index, n) ==
    IF n = 0 THEN [result |-> <<>>, failed |-> FALSE]
    ELSE LET prev == project_rows(f, offset, num_columns, column_index, n - 1)
             rd   == ReadFloat(f, prev.failed,
                               FloatOffset(offset, n - 1, num_columns, column_index),
                               ZeroFloat)
         IN  [result |-> Append(prev.result, rd.val), failed |-> rd.failed]

project_single_column(metadata, files, hty_file_path, projected_column) ==
    IF ~(hty_file_path \in Paths /\ files[hty_file_path].exists) THEN <<>>
    ELSE LET info == get_column_info(metadata, projected_column) IN
         IF info[1] = -1 \/ info[2] = -1 THEN <<>>
         ELSE LET group == metadata.groups[info[1] + 1] IN
              project_rows(files[hty_file_path], group.offset, group.num_columns,
                           info[2], metadata.num_rows).result

apply_filter(value, operation, filter_value) ==
    CASE operation = GREATER_THAN  -> value > filter_value
      [] operation = GREATER_EQUAL -> value >= filter_value
      [] operation = LESS_THAN     -> value < filter_value
      [] operation = LESS_EQUAL    -> value <= filter_value
      [] operation = EQUAL         -> Abs(value - filter_value) < EPSILON
      [] operation = NOT_EQUAL     -> Abs(value - filter_value) >= EPSILON
      [] OTHER                     -> FALSE

\* a loop that puts each passing value in front of the earlier ones
RECURSIVE filter_loop_Prepend(_, _, _, _)
filter_loop_Prepend(column_data, operation, filtered_value, n) ==
    IF n = 0 THEN <<>>
    ELSE LET result == filter_loop_Prepend(column_data, operation, filtered_value, n - 1) IN
         IF apply_filter(column_data[n], operation, filtered_value)
         THEN <<column_data[n]>> \o result
         ELSE result

\* the loop of filter over the first n values of column_data
RECURSIVE filter_loop(_, _, _, _)
filter_loop(column_data, operation, filtered_value, n) ==
    IF n = 0 THEN <<>>
    ELSE LET result == filter_loop(column_data, operation, filtered_value, n - 1) IN
         IF apply_filter(column_data[n], operation, filtered_value)
         THEN Append(result, column_data[n])
         ELSE result

filter(metadata, files, hty_file_path, filtered_column, operation, filtered_value) ==
    LET column_data == project_single_column(metadata, files, hty_file_path, filtered_column) IN
    IF column_data = <<>> THEN <<>>
    ELSE filter_loop(column_data, operation, filtered_value, Len(column_data))

\* a check that looks at the first column only
verify_same_group_FirstOnly(metadata, columns) ==
    IF columns = <<>> THEN -1 ELSE get_column_info(metadata, columns[1])[1]

\* the group index (from 0) when all columns are found in one group, else -1
verify_same_group(metadata, columns) ==
    IF columns = <<>> THEN -1
    ELSE LET first_group == get_column_info(metadata, columns[1])[1] IN
         IF first_group = -1 THEN -1
         ELSE IF \A i \in 2..Len(columns) :
                    /\ columns[i] # ""
                    /\ get_column_info(metadata, columns[i])[1] # -1
                    /\ get_column_info(metadata, columns[i])[1] = first_group
              THEN first_group
              ELSE -1

\* the read loop of project after n reads, rows outer and columns inner:
\* result[i] holds the values read so far for the i-th requested column
RECURSIVE project_scan(_, _, _, _, _)
project_scan(f, offset, num_columns, column_indices, n) ==
    IF n = 0
    THEN [result |-> [i \in 1..Len(column_indices) |-> <<>>], failed |-> FALSE]
    ELSE LET prev == project_scan(f, offset, num_columns, column_indices, n - 1)
             row  == (n - 1) \div Len(column_indices)
             i    == ((n - 1) % Len(column_indices)) + 1
             rd   == ReadFloat(f, prev.failed,
                               FloatOffset(offset, row, num_columns, column_indices[i]),
                               ZeroFloat)
         IN  [result |-> [prev.result EXCEPT ![i] = Append(@, rd.val)],
              failed |-> rd.failed]

\* a projection that reads every group at the first group's place
project_FirstGroup(metadata, files, hty_file_path, projected_columns) ==
    LET group_index == verify_same_group(metadata, projected_columns) IN
    IF group_index = -1 THEN <<>>
    ELSE IF ~(hty_file_path \in Paths /\ files[hty_file_path].exists) THEN <<>>
    ELSE LET group == metadata.groups[1]
             column_indices == [i \in 1..Len(projected_columns) |->
                                  get_column_info(metadata, projected_columns[i])[2]]
         IN  project_scan(files[hty_file_path], group.offset, group.num_columns,
                          column_indices, metadata.num_rows * Len(projected_columns)).result

project(metadata, files, hty_file_path, projected_columns) ==
    LET group_index == verify_same_group(metadata, projected_columns) IN
    IF group_index = -1 THEN <<>>
    ELSE IF ~(hty_file_path \in Paths /\ files[hty_file_path].exists) THEN <<>>
    ELSE LET group == metadata.groups[group_index + 1]
             column_indices == [i \in 1..Len(projected_columns) |->
                                  get_column_info(metadata, projected_columns[i])[2]]
         IN  project_scan(files[hty_file_path], group.offset, group.num_columns,
                          column_indices, metadata.num_rows * Len(projected_columns)).result

\* a row reader that reads every passing row's columns from the first row
RECURSIVE project_row_FirstRow(_, _, _, _, _, _, _, _)
project_row_FirstRow(f, offset, row, num_columns, proj_indices, n, failed, proj_value) ==
    IF n = 0 THEN [vals |-> <<>>, failed |-> failed, proj_value |-> proj_value]
    ELSE LET prev == project_row_FirstRow(f, offset, row, num_columns, proj_indices, n - 1,
                                          failed, proj_value)
             rd   == ReadFloat(f, prev.failed,
                               FloatOffset(offset, 0, num_columns, proj_indices[n]),
                               prev.proj_value)
         IN  [vals |-> Append(prev.vals, rd.val), failed |-> rd.failed,
              proj_value |-> rd.val]

\* the columns read for one passing row: proj_value keeps its last value when
\* a read fails
RECURSIVE project_row(_, _, _, _, _, _, _, _)
project_row(f, offset, row, num_columns, proj_indices, n, failed, proj_value) ==
    IF n = 0 THEN [vals |-> <<>>, failed |-> failed, proj_value |-> proj_value]
    ELSE LET prev == project_row(f, offset, row, num_columns, proj_indices, n - 1,
                                 failed, proj_value)
             rd   == ReadFloat(f, prev.failed,
                               FloatOffset(offset, row, num_columns, proj_indices[n]),
                               prev.proj_value)
         IN  [vals |-> Append(prev.vals, rd.val), failed |-> rd.failed,
              proj_value |-> rd.val]

\* the loop of project_and_filter after n rows.  filter_value and proj_value
\* are declared without a value: until a read succeeds they hold what the
\* build left there, uninit[1] and uninit[2]
RECURSIVE filter_scan(_, _, _, _, _, _, _, _, _)
filter_scan(f, offset, num_columns, proj_indices, filter_col_idx, op, value, uninit, n) ==
    IF n = 0
    THEN [result |-> [i \in 1..Len(proj_indices) |-> <<>>], failed |-> FALSE,
          filter_value |-> uninit[1], proj_value |-> uninit[2]]
    ELSE LET prev == filter_scan(f, offset, num_columns, proj_indices, filter_col_idx,
                                 op, value, uninit, n - 1)
             rd   == ReadFloat(f, prev.failed,
                               FloatOffset(offset, n - 1, num_columns, filter_col_idx),
                               prev.filter_value)
         IN  IF apply_filter(rd.val, op, value)
             THEN LET pr == project_row(f, offset, n - 1, num_columns, proj_indices,
                                        Len(proj_indices), rd.failed, prev.proj_value)
                  IN  [result |-> [i \in 1..Len(proj_indices) |->
                                     Append(prev.result[i], pr.vals[i])],
                       failed |-> pr.failed,
                       filter_value |-> rd.val, proj_value |-> pr.proj_value]
             ELSE [prev EXCEPT !.failed = rd.failed, !.filter_value = rd.val]

project_and_filter(metadata, files, hty_file_path, projected_columns, filtered_column, op, value, uninit) ==
    LET all_columns == IF \E i \in 1..Len(projected_columns) :
                             projected_columns[i] = filtered_column
                       THEN projected_columns
                       ELSE Append(projected_columns, filtered_column)
        group_index == verify_same_group(metadata, all_columns)
    IN  IF group_index = -1 THEN <<>>
        ELSE IF ~(hty_file_path \in Paths /\ files[hty_file_path].exists) THEN <<>>
        ELSE LET group == metadata.groups[group_index + 1]
                 proj_indices == [i \in 1..Len(projected_columns) |->
                                    get_column_info(metadata, projected_columns[i])[2]]
                 filter_col_idx == get_column_info(metadata, filtered_column)[2]
             IN  filter_scan(files[hty_file_path], group.offset, group.num_columns,
                             proj_indices, filter_col_idx, op, value, uninit,
                             metadata.num_rows).result

----------------------------------------------------------------------------
(* The analyzer's output and completion status *)

\* what a run printed on standard output: the names of the header line (none
\* when no header line was printed) and, line by line, the floats that
\* format_large_number rendered
NoOutput == [header |-> <<>>, rows |-> <<>>]

display_column(column_name, data) ==
    [header |-> <<column_name>>, rows |-> [i \in 1..Len(data) |-> <<data[i]>>]]

display_result_set(column_names, result_set) ==
    IF result_set = <<>> \/ column_names = <<>> THEN NoOutput
    ELSE [header |-> column_names,
          rows   |-> [row \in 1..Len(result_set[1]) |->
                        [col \in 1..Len(result_set) |-> result_set[col][row]]]]

\* a query command without a filter
NoFilter == [present |-> FALSE]

\* the query branch of main for column_names (num_columns > 0 names were
\* read) and a filter that is absent or holds an operation code, a value and
\* a column (the first requested column when the line is empty)
main_query(metadata, files, hty_file_path, column_names, flt, uninit) ==
    IF flt.present
    THEN LET filter_column == IF flt.column = "" THEN column_names[1] ELSE flt.column IN
         IF flt.operation < 0 \/ flt.operation > 5
         THEN [result |-> <<>>, out |-> NoOutput, status |-> 1]
         ELSE IF Len(column_names) = 1 /\ column_names[1] = filter_column
         THEN LET filtered_data == filter(metadata, files, hty_file_path, filter_column,
                                          flt.operation, flt.value)
              IN  [result |-> filtered_data,
                   out    |-> display_column(filter_column, filtered_data),
                   status |-> 0]
         ELSE LET result_set == project_and_filter(metadata, files, hty_file_path,
                                                   column_names, filter_column,
                                                   flt.operation, flt.value, uninit)
              IN  [result |-> result_set,
                   out    |-> display_result_set(column_names, result_set),
                   status |-> 0]
    ELSE IF Len(column_names) = 1
         THEN LET column_data == project_single_column(metadata, files, hty_file_path,
                                                       column_names[1])
              IN  [result |-> column_data,
                   out    |-> display_column(column_names[1], column_data),
                   status |-> 0]
         ELSE LET result_set == project(metadata, files, hty_file_path, column_names)
              IN  [result |-> result_set,
                   out    |-> display_result_set(column_names, result_set),
                   status |-> 0]

----------------------------------------------------------------------------
(* Appender: validate_rows and add_row *)

\* the sum of num_columns over groups 1..n
RECURSIVE SumColumns(_, _)
SumColumns(groups, n) ==
    IF n = 0 THEN 0 ELSE SumColumns(groups, n - 1) + groups[n].num_columns

\* a validation that accepts an empty list
validate_rows_AcceptEmpty(metadata, rows) ==
    LET total_columns == SumColumns(metadata.groups, Len(metadata.groups)) IN
    \A i \in 1..Len(rows) : Len(rows[i]) = total_columns

validate_rows(metadata, rows) ==
    /\ rows # <<>>
    /\ LET total_columns == SumColumns(metadata.groups, Len(metadata.groups)) IN
       \A i \in 1..Len(rows) : Len(rows[i]) = total_columns

\* a writer that takes every group's values from the start of the row
NewRowCells_FromZero(rows, start_col, group_columns) ==
    [k \in 1..(Len(rows) * group_columns) |->
        rows[((k - 1) \div group_columns) + 1][((k - 1) % group_columns) + 1]]

\* the floats the inner loops write for one group: for each new row, its
\* group_columns values from start_col on
NewRowCells(rows, start_col, group_columns) ==
    [k \in 1..(Len(rows) * group_columns) |->
        rows[((k - 1) \div group_columns) + 1][start_col + ((k - 1) % group_columns) + 1]]

\* an update that forgets the rows just written
NextOffset_OldOnly(current_offset, group_size, num_new_rows, group_columns) ==
    current_offset + group_size

\* current_offset after one group
NextOffset(current_offset, group_size, num_new_rows, group_columns) ==
    current_offset + group_size + num_new_rows * group_columns * sizeof_float

\* the state of add_row's loop after n groups: the floats written so far, the
\* groups of new_metadata, current_offset and the input stream's failbit
RECURSIVE add_row_groups(_, _, _, _)
add_row_groups(metadata, input, rows, n) ==
    IF n = 0
    THEN [out |-> <<>>, groups |-> metadata.groups, current_offset |-> 0, failed |-> FALSE]
    ELSE LET prev          == add_row_groups(metadata, input, rows, n - 1)
             group         == metadata.groups[n]
             group_columns == group.num_columns
             group_offset  == group.offset
             start_col     == SumColumns(metadata.groups, n - 1)
             group_size    == metadata.num_rows * group_columns * sizeof_float
             buffer        == ReadBlock(input, prev.failed, group_offset, group_size)
         IN  [out    |-> prev.out \o buffer.cells
                         \o NewRowCells(rows, start_col, group_columns),
              groups |-> [prev.groups EXCEPT ![n].offset = prev.current_offset],
              current_offset |-> NextOffset(prev.current_offset, group_size,
                                            Len(rows), group_columns),
              failed |-> buffer.failed]

\* an add_row that opens its files before it validates the rows
add_row_OpenFirst(files, metadata, hty_file_path, modified_hty_file_path, rows) ==
    IF ~(hty_file_path \in Paths /\ files[hty_file_path].exists)
    THEN [files |-> files, err |-> "input", new_metadata |-> EmptyMeta]
    ELSE IF modified_hty_file_path \notin Paths
    THEN [files |-> files, err |-> "output", new_metadata |-> EmptyMeta]
    ELSE LET opened == [files EXCEPT ![modified_hty_file_path] = TruncatedFile] IN
         IF ~validate_rows(metadata, rows)
         THEN [files |-> opened, err |-> "rows", new_metadata |-> EmptyMeta]
         ELSE LET fin == add_row_groups(metadata, opened[hty_file_path], rows,
                                        metadata.num_groups)
              IN  [files |-> [opened EXCEPT ![modified_hty_file_path] =
                                 WrittenFile(fin.out,
                                     [metadata EXCEPT
                                        !.num_rows = metadata.num_rows + Len(rows),
                                        !.groups   = fin.groups])],
                   err   |-> "",
                   new_metadata |-> [metadata EXCEPT
                                       !.num_rows = metadata.num_rows + Len(rows),
                                       !.groups   = fin.groups]]

\* add_row on the file system files: the file system it leaves and the error
\* it reports ("" when it reports none)
add_row(files, metadata, hty_file_path, modified_hty_file_path, rows) ==
    IF ~validate_rows(metadata, rows)
    THEN [files |-> files, err |-> "rows", new_metadata |-> EmptyMeta]
    ELSE IF ~(hty_file_path \in Paths /\ files[hty_file_path].exists)
    THEN [files |-> files, err |-> "input", new_metadata |-> EmptyMeta]
    ELSE IF modified_hty_file_path \notin Paths
    THEN [files |-> files, err |-> "output", new_metadata |-> EmptyMeta]
    ELSE LET opened == [files EXCEPT ![modified_hty_file_path] = TruncatedFile]
             fin    == add_row_groups(metadata, opened[hty_file_path], rows,
                                      metadata.num_groups)
             new_metadata == [metadata EXCEPT
                                !.num_rows = metadata.num_rows + Len(rows),
                                !.groups   = fin.groups]
         IN  [files |-> [opened EXCEPT ![modified_hty_file_path] =
                            WrittenFile(fin.out, new_metadata)],
              err   |-> "",
              new_metadata |-> new_metadata]

----------------------------------------------------------------------------
(* The CSV converter: csv_to_hty.cpp *)

\* A field of a CSV line is its text s and what the text is: a number in the
\* range of double, worth v; a number out of that range, 1e999; or a word that
\* number_regex does not match, the empty text among them
Number(v) == [kind |-> "number", s |-> ToString(v), v |-> v]
Huge      == [kind |-> "huge", s |-> "1e999", v |-> 0]
Word(s)   == [kind |-> "word", s |-> s, v |-> 0]

\* number_regex matches digits with an optional exponent of any size
is_number(str) == str.kind \in {"number", "huge"}

\* A line is the sequence of the texts its commas separate, an empty line
\* being one empty text.  getline(iss, token, ',') gives no token for an
\* empty rest, so an empty last text is dropped
split_csv_line(line) ==
    IF line[Len(line)].s = "" THEN SubSeq(line, 1, Len(line) - 1) ELSE line

generate_column_names(count) ==
    [i \in 1..count |-> Word("column_" \o ToString(i))]

create_metadata(header, data_rows) ==
    [num_rows   |-> Len(data_rows),
     num_groups |-> 1,
     groups     |-> << [num_columns |-> Len(header),
                        offset      |-> 0,
                        columns     |-> [i \in 1..Len(header) |-> Column(header[i].s)]] >>]

\* the field the write loop takes for column i of a row
FieldAt(row, i) == IF i <= Len(row) THEN row[i] ELSE Word("")

\* the floats the write loop writes for one row of a header of `width` names
RowFloats(row, width) ==
    [i \in 1..width |-> IF is_number(FieldAt(row, i)) THEN FieldAt(row, i).v
                        ELSE ZeroFloat]

\* std::stod throws std::out_of_range for a field of the row, which nothing
\* catches
StodThrows(row, width) ==
    \E i \in 1..width : FieldAt(row, i).kind = "huge"

\* the header and the data rows read from the lines of a CSV file
ReadCsv(lines) ==
    IF lines = <<>> THEN [header |-> <<>>, data |-> <<>>]
    ELSE LET first_row == split_csv_line(lines[1])
             is_header == \E i \in 1..Len(first_row) : ~is_number(first_row[i])
             rest      == [k \in 1..(Len(lines) - 1) |-> split_csv_line(lines[k + 1])]
         IN  IF is_header THEN [header |-> first_row, data |-> rest]
             ELSE [header |-> generate_column_names(Len(first_row)),
                   data   |-> <<first_row>> \o rest]

\* a CSV file that does not open
NoCsv == [exists |-> FALSE, lines |-> <<>>]

\* convert_from_csv_to_hty: the file system it leaves, the metadata it made
\* and how it ended: "open" when a file did not open (the output, when it
\* did, is left created and empty), "abort" when std::stod threw and the
\* program was terminated before its output buffer reached the file, ""
\* when it returned after writing the table
convert_from_csv_to_hty(files, csv, hty_file_path) ==
    IF hty_file_path \notin Paths
    THEN [files |-> files, err |-> "open", new_metadata |-> EmptyMeta]
    ELSE LET opened == [files EXCEPT ![hty_file_path] = TruncatedFile] IN
         IF ~csv.exists
         THEN [files |-> opened, err |-> "open", new_metadata |-> EmptyMeta]
         ELSE LET read     == ReadCsv(csv.lines)
                  width    == Len(read.header)
                  metadata == create_metadata(read.header, read.data)
              IN  IF \E k \in 1..Len(read.data) : StodThrows(read.data[k], width)
                  THEN [files |-> opened, err |-> "abort", new_metadata |-> metadata]
                  ELSE [files |-> [opened EXCEPT ![hty_file_path] =
                                     WrittenFile(Concat([k \in 1..Len(read.data) |->
                                                           RowFloats(read.data[k], width)]),
                                                 metadata)],
                        err   |-> "",
                        new_metadata |-> metadata]

----------------------------------------------------------------------------
(* The analyzer's runs *)

\* extract_metadata: the json read from the file, the empty one when the file
\* does not open
extract_metadata(files, hty_file_path) ==
    IF hty_file_path \in Paths THEN Decoded(files[hty_file_path]) ELSE EmptyMeta

\* a row of w floats
NewRow(base, w) == [j \in 1..w |-> (base + j) % (MaxVal + 1)]

\* n rows of the right width w, no two alike
GoodRows(n, w) == [k \in 1..n |-> NewRow(k, w)]

\* the row lists a caller may pass for a table of w logical columns: up to
\* MaxNewRows rows of the right width, or such a list with one row, at any
\* position, one float short or one float long
RowLists(w) ==
    { GoodRows(n, w) : n \in 0..MaxNewRows }
    \cup
    { [GoodRows(n, w) EXCEPT ![i] = NewRow(i, w + d)] :
        n \in 1..MaxNewRows, i \in 1..MaxNewRows, d \in {-1, 1} }

Init ==
    /\ fs \in { [p \in Paths |-> IF p = "p1" THEN t ELSE NoFile] : t \in InitTables }
    /\ last = [op |-> "none"]

\* A run that reported an error left the file system as it was, and no run
\* reads `last`: the runs that follow it are the runs that follow the state
\* before it, so only the states a run changed are run from again.
Settled == last.op = "none" \/ (last.op = "add_row" /\ last.err = "")

AddRow(metadata, src, dst, rows) ==
    LET res == add_row(fs, metadata, src, dst, rows)
    IN  /\ metadata.num_rows + Len(rows) <= MaxRows
        /\ fs' = res.files
        /\ last' = [op |-> "add_row", src |-> src, dst |-> dst, rows |-> rows,
                    metadata |-> metadata, err |-> res.err, pre |-> fs,
                    new_metadata |-> res.new_metadata]

\* main reads the metadata and stops when it is empty; else it runs the command
NextAppend ==
    /\ Settled
    /\ \E src \in Paths :
        \E metadata \in {extract_metadata(fs, src)} :
        /\ metadata # EmptyMeta
        /\ \E dst \in Paths \cup {BadPath} :
            \E rows \in RowLists(SumColumns(metadata.groups, Len(metadata.groups))) :
                AddRow(metadata, src, dst, rows)

SpecAppend == Init /\ [][NextAppend]_vars

----------------------------------------------------------------------------
(* Queries *)

FilterOps == {GREATER_THAN, GREATER_EQUAL, LESS_THAN, LESS_EQUAL, EQUAL, NOT_EQUAL}

\* names a query may ask for: declared ones, one no table declares, the empty one
QueryNames == {"a", "b", "c", "z", ""}

\* the name lists a query may ask for: every group's declared list, lists
\* across groups, lists with an unknown or an empty name, the empty list
NameLists ==
    { <<>>, <<"a">>, <<"b">>, <<"c">>, <<"z">>, <<"a", "b">>, <<"b", "a">>, <<"b", "c">>,
      <<"a", "c">>, <<"a", "a">>, <<"a", "">>, <<"", "a">>, <<"a", "z">> }

\* what an uninitialised float local may hold: any value; the model takes the
\* smallest and the largest
UninitFloats == {ZeroFloat, MaxVal}

ProjectOne(metadata, src, name) ==
    /\ last' = [op |-> "project_one", src |-> src, metadata |-> metadata, name |-> name,
                result |-> project_single_column(metadata, fs, src, name)]
    /\ UNCHANGED fs

ProjectMany(metadata, src, names) ==
    /\ last' = [op |-> "project_many", src |-> src, metadata |-> metadata, names |-> names,
                result |-> project(metadata, fs, src, names)]
    /\ UNCHANGED fs

FilterOne(metadata, src, name, operation, value) ==
    /\ last' = [op |-> "filter_one", src |-> src, metadata |-> metadata, name |-> name,
                operation |-> operation, value |-> value,
                result |-> filter(metadata, fs, src, name, operation, value)]
    /\ UNCHANGED fs

ProjectAndFilter(metadata, src, names, name, operation, value, uninit) ==
    /\ last' = [op |-> "project_and_filter", src |-> src, metadata |-> metadata,
                names |-> names, name |-> name, operation |-> operation, value |-> value,
                result |-> project_and_filter(metadata, fs, src, names, name,
                                              operation, value, uninit)]
    /\ UNCHANGED fs

\* the name lists main reads: num_columns > 0 names, none of them empty
MainNameLists ==
    { names \in NameLists : names # <<>> /\ \A i \in 1..Len(names) : names[i] # "" }

\* an operation code outside 0..5
BadOperation == NOT_EQUAL + 1

\* the filters of a query command: none, or an operation code that is valid
\* or not, a threshold and a filter column, that may be left out
MainFilters ==
    {NoFilter}
    \cup { [present |-> TRUE, operation |-> operation, value |-> value, column |-> column] :
             operation \in {GREATER_THAN, EQUAL, BadOperation},
             value \in {1, MaxVal - 1},
             column \in {"", "a", "b", "z"} }

\* a whole run of the analyzer on a query command
MainQuery(metadata, src, column_names, flt, uninit) ==
    LET run == main_query(metadata, fs, src, column_names, flt, uninit)
    IN  /\ last' = [op |-> "main_query", src |-> src, metadata |-> metadata,
                    names |-> column_names, flt |-> flt,
                    result |-> run.result, out |-> run.out, status |-> run.status]
        /\ UNCHANGED fs

\* main reads the metadata and stops when it is empty; else it runs the command
NextQuery ==
    /\ Settled
    /\ \E src \in Paths :
        \E metadata \in {extract_metadata(fs, src)} :
        /\ metadata # EmptyMeta
        /\ \/ \E name \in QueryNames : ProjectOne(metadata, src, name)
           \/ \E names \in NameLists : ProjectMany(metadata, src, names)
           \/ \E name \in QueryNames, operation \in FilterOps, value \in Float :
                 FilterOne(metadata, src, name, operation, value)
           \/ \E names \in NameLists, name \in QueryNames, operation \in FilterOps,
                 value \in {1, MaxVal - 1}, uninit \in UninitFloats \X UninitFloats :
                 ProjectAndFilter(metadata, src, names, name, operation, value, uninit)
           \/ \E column_names \in MainNameLists, flt \in MainFilters,
                 uninit \in UninitFloats \X UninitFloats :
                 MainQuery(metadata, src, column_names, flt, uninit)

SpecQuery == Init /\ [][NextQuery]_vars

----------------------------------------------------------------------------
(* Runs of the converter, and of the analyzer's add_row on what it wrote *)

\* the most fields of the first line of a CSV file
MaxFields == 2

\* the most lines of a CSV file after the first
MaxLines == 2

\* the first lines: up to MaxFields numbers, words and empty texts
FirstFields == {Number(1), Word("a"), Word(""), Huge}

RECURSIVE LinesOf(_, _)
LinesOf(fields, n) ==
    IF n = 0 THEN {<<>>}
    ELSE { Append(line, field) : line \in LinesOf(fields, n - 1), field \in fields }

FirstLines == UNION { LinesOf(FirstFields, n) : n \in 1..MaxFields }

\* the later lines: shorter and longer than the header, with words, empty
\* texts and numbers out of range among the numbers
LaterLines ==
    << <<Number(2)>>, <<Number(3), Number(4)>>, <<Word("")>>, <<Word("x"), Number(2)>>,
       <<Number(4), Number(3), Number(2)>>, <<Number(1), Word("")>>, <<Number(1), Huge>>,
       <<Number(1), Number(2), Huge>> >>

\* n later lines, taken in turn from the k-th on
LaterFrom(k, n) == [i \in 1..n |-> LaterLines[((k + i - 2) % Len(LaterLines)) + 1]]

\* the CSV files converted: one that does not open, an empty one, and a
\* first line followed by up to MaxLines later lines
CsvFiles ==
    {NoCsv, [exists |-> TRUE, lines |-> <<>>]}
    \cup { [exists |-> TRUE, lines |-> <<first>> \o LaterFrom(k, n)] :
             first \in FirstLines, k \in 1..Len(LaterLines), n \in 0..MaxLines }

InitConvert ==
    /\ fs = [p \in Paths |-> NoFile]
    /\ last = [op |-> "none"]

Convert(csv, dst) ==
    LET res == convert_from_csv_to_hty(fs, csv, dst) IN
    /\ fs' = res.files
    /\ last' = [op |-> "convert", csv |-> csv, dst |-> dst, err |-> res.err,
                new_metadata |-> res.new_metadata, pre |-> fs]

\* the converter runs on an empty file system; the analyzer then appends rows
\* to the table it wrote, in place or to another file
NextConvert ==
    \/ /\ last.op = "none"
       /\ \/ \E csv \in CsvFiles : Convert(csv, "p1")
          \/ \E csv \in {NoCsv, [exists |-> TRUE, lines |-> <<<<Number(1)>>>>]} :
                Convert(csv, BadPath)
    \/ /\ last.op = "convert"
       /\ last.dst \in Paths
       /\ \E metadata \in {extract_metadata(fs, last.dst)} :
            /\ metadata # EmptyMeta
            /\ \E dst \in Paths, n \in 1..MaxNewRows :
                 AddRow(metadata, last.dst, dst,
                        GoodRows(n, SumColumns(metadata.groups, Len(metadata.groups))))

SpecConvert == InitConvert /\ [][NextConvert]_vars

----------------------------------------------------------------------------
(* Whole runs of the analyzer on files that may not be tables *)

\* the commands of a run: none (main prints num_rows), add_row, or a query
NoCommand == [kind |-> "none"]

\* main on the file system files: the metadata it read, what it printed, its
\* completion status, the file system it left and the command it ran.
\* uninit holds what the locals declared without a value start with
main(files, hty_file_path, command, uninit) ==
    LET metadata == IF hty_file_path \in Paths /\ files[hty_file_path].exists
                    THEN decode(files[hty_file_path], uninit.metadata_size)
                    ELSE EmptyMeta
    IN  IF metadata = EmptyMeta
        THEN [metadata |-> metadata, out |-> NoOutput, status |-> 1, files |-> files,
              ran |-> "nothing"]
        ELSE CASE command.kind = "none" ->
                    [metadata |-> metadata,
                     out      |-> [header |-> <<"num_rows">>, rows |-> <<<<metadata.num_rows>>>>],
                     status   |-> 0, files |-> files, ran |-> "num_rows"]
               [] command.kind = "add_row" ->
                    [metadata |-> metadata, out |-> NoOutput, status |-> 0,
                     files    |-> add_row(files, metadata, hty_file_path,
                                          command.modified_hty_file_path, command.rows).files,
                     ran      |-> "add_row"]
               [] command.kind = "query" ->
                    LET run == main_query(metadata, files, hty_file_path,
                                          command.column_names, command.flt, uninit.floats)
                    IN  [metadata |-> metadata, out |-> run.out, status |-> run.status,
                         files |-> files, ran |-> "query"]

\* the tables the files of these runs are made from: one row of every schema
DecodeTables == { Table(schema, 1, 1, InOrder(schema), 0) : schema \in Schemas }

\* a text from which token k was taken out
Without(toks, k) == SubSeq(toks, 1, k - 1) \o SubSeq(toks, k + 1, Len(toks))

\* texts that are not JSON, made from a metadata text: its closing brace, its
\* first colon or its first comma missing, a second comma after the first,
\* a stray token at its end, nothing at all
BrokenTexts(toks) ==
    { Without(toks, Len(toks)), Without(toks, 3), Without(toks, 1),
      SubSeq(toks, 1, 3) \o <<Punct(",")>> \o SubSeq(toks, 4, Len(toks)),
      toks \o <<Punct("}")>>, toks \o <<RawBytes>>, <<>> }

\* metadata sizes that do not fit a file f with a good text: negative, zero,
\* one byte or one token short, one byte or one float long, longer than the
\* file
WrongSizes(f) ==
    { -1, -sizeof_int, 0, f.text.size - 1, f.text.size - TokLen(f.text.toks[1]),
      f.text.size + 1, f.text.size + sizeof_float,
      f.text.size + sizeof_float * Len(f.data) + 1, JunkInt }

\* files of fewer than 4 bytes, and files that end in floats or in text
ShortFiles ==
    { TruncatedFile,
      [TruncatedFile EXCEPT !.text = Text(<<Punct("{"), Punct("}")>>)],
      [TruncatedFile EXCEPT !.text = Text(<<Num(123)>>)],
      [TruncatedFile EXCEPT !.data = <<ZeroFloat, ZeroFloat>>],
      [TruncatedFile EXCEPT !.data = <<1, 2>>] }

DecodeFiles ==
    DecodeTables
    \cup UNION { { [t EXCEPT !.text = Text(toks), !.trailer = <<TextLen(toks)>>] :
                   toks \in BrokenTexts(t.text.toks) } :
                 t \in DecodeTables }
    \cup UNION { { [t EXCEPT !.trailer = <<size>>] : size \in WrongSizes(t) } :
                 t \in DecodeTables }
    \cup { [t EXCEPT !.trailer = <<>>] : t \in DecodeTables }
    \cup ShortFiles \cup {NoFile}

\* what metadata_size may hold when it was never read
UninitSizes == {-1, 0, 1, JunkInt}

\* the commands given with a file whose metadata, if any, is metadata
Commands(metadata) ==
    { NoCommand,
      [kind |-> "add_row", modified_hty_file_path |-> "p2",
       rows |-> GoodRows(1, SumColumns(metadata.groups, Len(metadata.groups)))],
      [kind |-> "query", column_names |-> <<"a">>, flt |-> NoFilter] }

InitDecode ==
    /\ fs \in { [p \in Paths |-> IF p = "p1" THEN f ELSE NoFile] : f \in DecodeFiles }
    /\ last = [op |-> "none"]

\* a whole run of the analyzer
Main(src, command, uninit) ==
    LET run == main(fs, src, command, uninit) IN
    /\ fs' = run.files
    /\ last' = [op |-> "main", src |-> src, command |-> command, uninit |-> uninit,
                metadata |-> run.metadata, out |-> run.out, status |-> run.status,
                ran |-> run.ran, pre |-> fs]

NextDecode ==
    /\ last.op = "none"
    /\ \E size \in UninitSizes :
         \E command \in Commands(decode(fs["p1"], size)) :
            Main("p1", command, [metadata_size |-> size,
                                 floats |-> <<ZeroFloat, ZeroFloat>>])

SpecDecode == InitDecode /\ [][NextDecode]_vars

----------------------------------------------------------------------------
(* NumberFormatter: format_large_number on 32-bit floats *)

BILLION == 1000000000
PRECISION_LARGE == 5
PRECISION_NORMAL == 2

\* A decimal number: a sign, a whole part and a count of quarters, worth
\* (whole + quarters / 4), negated when neg
Decimal(neg, whole, quarters) == [neg |-> neg, whole |-> whole, quarters |-> quarters]

RECURSIVE Pow2(_)
Pow2(n) == IF n = 0 THEN 1 ELSE 2 * Pow2(n - 1)

\* the exponent e of a whole number >= 1: 2^e <= whole < 2^(e+1)
RECURSIVE Exponent(_)
Exponent(whole) == IF whole < 2 THEN 0 ELSE 1 + Exponent(whole \div 2)

\* q rounded to the nearest multiple of unit, a tie going to the even multiple
RoundToEven(q, unit) ==
    LET down == q - (q % unit)
        rest == q % unit
    IN  IF 2 * rest > unit \/ (2 * rest = unit /\ (down \div unit) % 2 = 1)
        THEN down + unit
        ELSE down

\* the 32-bit float nearest to a decimal: 24 bits of mantissa.  Below 2^24
\* the mantissa reaches into the quarters, from 2^24 on floats are whole
\* numbers 2^(e-23) apart
Float32(x) ==
    IF x.whole < Pow2(24)
    THEN LET unit == IF x.whole < Pow2(22) THEN 1 ELSE IF x.whole < Pow2(23) THEN 2 ELSE 4
             q    == RoundToEven(4 * x.whole + x.quarters, unit)
         IN  Decimal(x.neg, q \div 4, q % 4)
    ELSE LET unit == Pow2(Exponent(x.whole) - 23)
             q    == RoundToEven(4 * (x.whole % unit) + x.quarters, 4 * unit)
         IN  Decimal(x.neg, x.whole - (x.whole % unit) + (q \div 4), 0)

\* a formatter that keeps 1e9 itself in fixed notation
format_large_number_Above(value) ==
    IF value.whole > BILLION \/ (value.whole = BILLION /\ value.quarters > 0)
    THEN [notation |-> "scientific", precision |-> PRECISION_LARGE]
    ELSE IF value.quarters = 0
    THEN [notation |-> "fixed", precision |-> 1]
    ELSE [notation |-> "fixed", precision |-> PRECISION_NORMAL]

\* format_large_number(value): the notation and the precision the stream is
\* set to.  static_cast<int>(value) cuts the fraction off; below 1e9 in
\* magnitude the result fits an int
format_large_number(value) ==
    IF value.whole >= BILLION
    THEN [notation |-> "scientific", precision |-> PRECISION_LARGE]
    ELSE IF value.quarters = 0
    THEN [notation |-> "fixed", precision |-> 1]
    ELSE [notation |-> "fixed", precision |-> PRECISION_NORMAL]

\* the floats between two neighbours of which 1e9 lies are 64 apart
FloatStep == Pow2(Exponent(BILLION) - 23)

\* the decimals formatted: small ones, and ones at, next to and halfway
\* between the floats around 1e9
Decimals ==
    { Decimal(neg, whole, quarters) :
        neg \in BOOLEAN,
        whole \in (0..MaxVal)
                  \cup { BILLION + d * FloatStep + e :
                           d \in {-2, -1, 0, 1},
                           e \in {-1, 0, 1, FloatStep \div 2} },
        quarters \in 0..3 }

InitFormat ==
    /\ fs = [p \in Paths |-> NoFile]
    /\ last \in { [op |-> "decimal", x |-> x] : x \in Decimals }

\* the decimal is stored as a 32-bit float and the float is rendered
Format ==
    /\ last.op = "decimal"
    /\ last' = [op |-> "format", x |-> last.x, value |-> Float32(last.x),
                text |-> format_large_number(Float32(last.x))]
    /\ UNCHANGED fs

SpecFormat == InitFormat /\ [][Format]_vars

----------------------------------------------------------------------------
(* Append: claims C1 - C6, checked under SpecAppend *)

\* add_row ran and reported no error: it wrote the destination
Appended == last.op = "add_row" /\ last.err = ""

\* the logical column count add_row expects of every row
TotalColumns(metadata) == SumColumns(metadata.groups, Len(metadata.groups))

\* the byte of row r, column c (both from 0) of a group
ValueOffset(group, r, c) == group.offset + (r * group.num_columns + c) * sizeof_float

\* the column names in logical order: group by group, in declaration order
LogicalNames(metadata) ==
    Concat([g \in 1..Len(metadata.groups) |->
              [j \in 1..Len(metadata.groups[g].columns) |->
                  metadata.groups[g].columns[j].column_name]])

UniqueNames(metadata) ==
    \A i, j \in 1..Len(LogicalNames(metadata)) :
        i # j => LogicalNames(metadata)[i] # LogicalNames(metadata)[j]

NonEmptyNames(metadata) ==
    \A i \in 1..Len(LogicalNames(metadata)) : LogicalNames(metadata)[i] # ""

\* every value of the source table of the last add_row is at the same
\* (group, row, column) of the table it wrote
OldValuesKept ==
    LET old == last.metadata
        new == Decoded(fs[last.dst])
    IN  \A g \in 1..old.num_groups :
          \A r \in 0..(old.num_rows - 1) :
            \A c \in 0..(old.groups[g].num_columns - 1) :
               CellAt(fs[last.dst], ValueOffset(new.groups[g], r, c))
                 = CellAt(last.pre[last.src], ValueOffset(old.groups[g], r, c))

\* C1: after add_row succeeds on a well-formed table with R >= 1 new rows,
\* every value stored in the source at (group, row, column) is read back
\* unchanged from the new table at the same place, through the new offsets.
C1_OldValuesReadBack ==
    (Appended /\ WellFormed(last.pre[last.src]) /\ Len(last.rows) >= 1)
        => OldValuesKept

\* the same when the table is written to another path than the source's
C1_OldValuesReadBackElsewhere ==
    (Appended /\ WellFormed(last.pre[last.src]) /\ Len(last.rows) >= 1
       /\ last.dst # last.src)
        => OldValuesKept

\* every new row is projected, column by column, at rows old num_rows + k
NewRowsProjected ==
    LET old   == last.metadata
        new   == extract_metadata(fs, last.dst)
        names == LogicalNames(old)
    IN  \A k \in 1..Len(last.rows) :
          \A j \in 1..Len(names) :
             LET col == project_single_column(new, fs, last.dst, names[j]) IN
             /\ Len(col) = old.num_rows + Len(last.rows)
             /\ col[old.num_rows + k] = last.rows[k][j]

\* C2 as stated: after add_row succeeds, projecting the column at logical
\* index j from the new table returns new row k's j-th value at row index
\* old num_rows + k, provided the column names are unique.
C2_NewRowsProjectedIfUnique ==
    (Appended /\ UniqueNames(last.metadata)) => NewRowsProjected

\* C2 amended: the same, provided the column names are unique and none of
\* them is empty.
C2_NewRowsProjected ==
    (Appended /\ UniqueNames(last.metadata) /\ NonEmptyNames(last.metadata))
        => NewRowsProjected

C2_Witness ==
    /\ Appended
    /\ UniqueNames(last.metadata) /\ NonEmptyNames(last.metadata)
    /\ last.metadata.num_groups >= 2
    /\ last.metadata.num_rows >= 1
    /\ Len(last.rows) >= 2

\* C3: the metadata add_row writes has num_rows = old num_rows + R and, for
\* each group g, offset = 4 * (old num_rows + R) * (columns of the groups
\* before g); the data ends where the last group ends, so the groups are
\* disjoint and contiguous from byte 0 and the metadata text follows them;
\* num_groups, num_columns and the column lists are the source's, whatever
\* the source's offsets were.
C3_NewMetadata ==
    Appended =>
        LET old == last.metadata
            f   == fs[last.dst]
            new == Decoded(f)
            n   == old.num_rows + Len(last.rows)
        IN  /\ f.exists /\ new # EmptyMeta
            /\ new.num_rows = n
            /\ new.num_groups = old.num_groups
            /\ Len(new.groups) = Len(old.groups)
            /\ \A g \in 1..Len(old.groups) :
                 /\ new.groups[g].offset
                      = sizeof_float * n * SumColumns(old.groups, g - 1)
                 /\ new.groups[g].num_columns = old.groups[g].num_columns
                 /\ new.groups[g].columns = old.groups[g].columns
            /\ sizeof_float * Len(f.data) = sizeof_float * n * TotalColumns(old)

\* the source's groups were not contiguous from byte 0 in declaration order
C3_Witness ==
    /\ Appended
    /\ Len(last.rows) >= 1
    /\ last.metadata.num_rows >= 1
    /\ last.metadata.num_groups >= 2
    /\ \E g \in 1..Len(last.metadata.groups) :
          last.metadata.groups[g].offset
            # sizeof_float * last.metadata.num_rows * SumColumns(last.metadata.groups, g - 1)

\* C4 as stated: add_row with zero new rows is accepted and writes a copy of
\* the source: same num_rows, same stored values, a metadata trailer.
C4_ZeroRowsCopies ==
    (last.op = "add_row" /\ last.rows = <<>> /\ last.dst \in Paths
       /\ last.dst # last.src /\ WellFormed(last.pre[last.src]))
        => /\ last.err = ""
           /\ fs[last.dst].exists /\ Decoded(fs[last.dst]) # EmptyMeta
           /\ Decoded(fs[last.dst]).num_rows = last.metadata.num_rows
           /\ OldValuesKept

\* C4 amended: add_row with zero new rows is rejected ("No rows provided")
\* and writes nothing: the destination and every other file are left as they
\* were.
C4_ZeroRowsRejected ==
    (last.op = "add_row" /\ last.rows = <<>>)
        => (last.err = "rows" /\ fs = last.pre)

C4_Witness ==
    /\ last.op = "add_row" /\ last.rows = <<>>
    /\ last.dst \in Paths /\ last.dst # last.src
    /\ last.metadata.num_rows >= 1

\* C5: when some row's length differs from the sum of num_columns over all
\* groups, add_row fails and the destination is exactly as before the call
\* (not created, truncated or written), wherever the row is in the list.
C5_ShapeRejected ==
    (last.op = "add_row"
       /\ \E i \in 1..Len(last.rows) : Len(last.rows[i]) # TotalColumns(last.metadata))
        => (last.err = "rows" /\ fs = last.pre)

\* the offending row is not the first one; one destination exists, one does not
C5_Witness ==
    /\ last.op = "add_row"
    /\ Len(last.rows) >= 2
    /\ Len(last.rows[1]) = TotalColumns(last.metadata)
    /\ Len(last.rows[2]) # TotalColumns(last.metadata)
    /\ last.dst \in Paths /\ last.dst # last.src
    /\ last.pre[last.dst].exists

\* C6: add_row never changes the source table: after any call, successful
\* or failed, for any destination path, also the source's own path, the
\* source's contents are those before the call.
C6_SourceUntouched ==
    last.op = "add_row" => fs[last.src] = last.pre[last.src]

\* the same when the destination is another path than the source's
C6_SourceUntouchedElsewhere ==
    (last.op = "add_row" /\ last.dst # last.src) => fs[last.src] = last.pre[last.src]

----------------------------------------------------------------------------
(* Queries: claims C7 - C10, checked under SpecQuery *)

\* C7: for a column name that resolves, project_single_column returns
\* exactly num_rows values, the i-th being the float stored at byte
\* group.offset + (i * group.num_columns + column_index) * 4 of the source;
\* the length is num_rows also when reads past the end of the file fail.
C7_ProjectOne ==
    (last.op = "project_one" /\ get_column_info(last.metadata, last.name)[1] # -1)
        => LET info  == get_column_info(last.metadata, last.name)
               group == last.metadata.groups[info[1] + 1]
               f     == fs[last.src]
           IN  /\ Len(last.result) = last.metadata.num_rows
               /\ \A i \in 0..(last.metadata.num_rows - 1) :
                    ValueOffset(group, i, info[2]) + sizeof_float <= FileSize(f)
                      => last.result[i + 1] = CellAt(f, ValueOffset(group, i, info[2]))

\* a column that is not the first of a group that is not the first
C7_Witness ==
    /\ last.op = "project_one"
    /\ WellFormed(fs[last.src])
    /\ get_column_info(last.metadata, last.name)[1] >= 1
    /\ get_column_info(last.metadata, last.name)[2] >= 1
    /\ last.metadata.num_rows >= 2
    /\ last.result[1] # last.result[2]

\* a projection whose reads all fall past the end of the file
C7_PastTheEnd ==
    /\ last.op = "project_one"
    /\ get_column_info(last.metadata, last.name)[1] # -1
    /\ last.metadata.num_rows >= 2
    /\ last.metadata.groups[get_column_info(last.metadata, last.name)[1] + 1].offset
         >= FileSize(fs[last.src])

GroupNames(metadata, g) ==
    [j \in 1..Len(metadata.groups[g].columns) |-> metadata.groups[g].columns[j].column_name]

\* the stored values of group g, column by column
StoredColumns(f, metadata, g) ==
    [c \in 1..metadata.groups[g].num_columns |->
        [r \in 1..metadata.num_rows |->
            CellAt(f, ValueOffset(metadata.groups[g], r - 1, c - 1))]]

\* project, asked for the declared names of a group, returns that group's
\* stored values: one sequence per column, one value per row
GroupProjected ==
    \A g \in 1..Len(last.metadata.groups) :
        last.names = GroupNames(last.metadata, g)
            => last.result = StoredColumns(fs[last.src], last.metadata, g)

\* C8 as stated: for every well-formed table, also one that declares a
\* column name twice, project called once per group with the group's
\* declared names yields every stored (group, row, column) value once.
C8_EveryGroupProjected ==
    (last.op = "project_many" /\ WellFormed(fs[last.src])) => GroupProjected

\* C8 amended: the same for every well-formed table whose column names are
\* non-empty and pairwise distinct over all groups.
C8_EveryGroupProjectedIfDistinct ==
    (last.op = "project_many" /\ WellFormed(fs[last.src])
       /\ UniqueNames(last.metadata) /\ NonEmptyNames(last.metadata))
        => GroupProjected

\* the two columns of a second group
C8_Witness ==
    /\ last.op = "project_many"
    /\ WellFormed(fs[last.src])
    /\ UniqueNames(last.metadata) /\ NonEmptyNames(last.metadata)
    /\ Len(last.metadata.groups) >= 2
    /\ last.names = GroupNames(last.metadata, 2)
    /\ Len(last.names) >= 2
    /\ last.metadata.num_rows >= 2

\* every name resolves, and all to one group
OneGroup(metadata, names) ==
    \E g \in 0..(metadata.num_groups - 1) :
        \A i \in 1..Len(names) : get_column_info(metadata, names[i])[1] = g

\* C9: project and project_and_filter return no column sequence when the
\* requested names (with the filter column, for project_and_filter) do not
\* all resolve to one group, and one sequence per requested name when they do.
C9_OneGroupOrNothing ==
    /\ last.op = "project_many"
         => IF OneGroup(last.metadata, last.names)
            THEN Len(last.result) = Len(last.names)
            ELSE last.result = <<>>
    /\ last.op = "project_and_filter"
         => IF OneGroup(last.metadata, Append(last.names, last.name))
            THEN Len(last.result) = Len(last.names)
            ELSE last.result = <<>>

\* the projected names are of one group and the filter column of another
C9_Witness ==
    /\ last.op = "project_and_filter"
    /\ Len(last.names) >= 2
    /\ OneGroup(last.metadata, last.names)
    /\ get_column_info(last.metadata, last.name)[1] # -1
    /\ ~OneGroup(last.metadata, Append(last.names, last.name))
    /\ last.result = <<>>

Passes(v) == apply_filter(v, last.operation, last.value)

\* C10: filter returns exactly the subsequence of the projected column made
\* of the values that pass apply_filter, in row order, each passing row
\* once and no failing row, for each of the six operators.
C10_FilterIsSubsequence ==
    last.op = "filter_one"
        => last.result
             = SelectSeq(project_single_column(last.metadata, fs, last.src, last.name),
                         Passes)

\* some rows pass, a row before them fails, and the passing values differ
C10_Witness ==
    /\ last.op = "filter_one"
    /\ Len(last.result) >= 2
    /\ last.result[1] # last.result[2]
    /\ LET col == project_single_column(last.metadata, fs, last.src, last.name) IN
       ~Passes(col[1])

----------------------------------------------------------------------------
(* Queries: claims C11 - C13, checked under SpecQuery *)

\* the group project_and_filter reads: the one of the filter column
FilterGroup == last.metadata.groups[get_column_info(last.metadata, last.name)[1] + 1]

\* every row the metadata declares for the group lies within the file
RowsInFile(f, metadata, group) ==
    group.offset + metadata.num_rows * group.num_columns * sizeof_float <= FileSize(f)

\* rows maps each index of the output sequences to a source row: the rows
\* rise strictly, each passes the filter, and element i of every output
\* sequence is the value row rows[i] stores for the projected column
AlignedBy(rows) ==
    LET f == fs[last.src] IN
    /\ \A i \in 1..(Len(rows) - 1) : rows[i] < rows[i + 1]
    /\ \A i \in 1..Len(rows) :
         /\ Passes(CellAt(f, ValueOffset(FilterGroup, rows[i],
                                         get_column_info(last.metadata, last.name)[2])))
         /\ \A k \in 1..Len(last.names) :
              last.result[k][i]
                = CellAt(f, ValueOffset(FilterGroup, rows[i],
                                        get_column_info(last.metadata, last.names[k])[2]))

Aligned ==
    /\ \A k \in 1..Len(last.result) : Len(last.result[k]) = Len(last.result[1])
    /\ \E rows \in [1..Len(last.result[1]) -> 0..(last.metadata.num_rows - 1)] :
         AlignedBy(rows)

C11_RowsAlignedAnyFile ==
    (last.op = "project_and_filter" /\ last.result # <<>>) => Aligned

Occurrences(metadata, name) ==
    UNION { { <<g - 1, j - 1>> :
                j \in { k \in 1..Len(metadata.groups[g].columns) :
                          metadata.groups[g].columns[k].column_name = name } } :
            g \in 1..Len(metadata.groups) }

NotFound(name) == name = "" \/ Occurrences(last.metadata, name) = {}

\* get_column_info answers <<-1, -1>> for a name that is empty or declared
\* nowhere, and else the occurrence no other occurrence precedes, groups
\* first and columns of a group second
LocatedFirst(name) ==
    LET info == get_column_info(last.metadata, name) IN
    IF NotFound(name) THEN info = <<-1, -1>>
    ELSE /\ info \in Occurrences(last.metadata, name)
         /\ \A o \in Occurrences(last.metadata, name) :
              info[1] < o[1] \/ (info[1] = o[1] /\ info[2] <= o[2])

\* C12: get_column_info returns the first <<group_index, column_index>>, in
\* the order of the groups and then of the columns of a group, whose
\* column_name is the requested name, and <<-1, -1>> when the name is empty
\* or occurs in no group; project_single_column, project, filter and
\* project_and_filter, asked for such a name, return no values; asked for a
\* name declared twice, project_single_column returns the column of the
\* first declaration.
C12_LocateFirstOrNothing ==
    /\ last.op \in {"project_one", "filter_one"}
         => /\ LocatedFirst(last.name)
            /\ NotFound(last.name) => last.result = <<>>
    /\ last.op = "project_one" /\ ~NotFound(last.name) /\ WellFormed(fs[last.src])
         => \E o \in Occurrences(last.metadata, last.name) :
              /\ \A p \in Occurrences(last.metadata, last.name) :
                   o[1] < p[1] \/ (o[1] = p[1] /\ o[2] <= p[2])
              /\ last.result
                   = StoredColumns(fs[last.src], last.metadata, o[1] + 1)[o[2] + 1]
    /\ last.op = "project_many"
         => /\ \A i \in 1..Len(last.names) : LocatedFirst(last.names[i])
            /\ (\E i \in 1..Len(last.names) : NotFound(last.names[i]))
                 => last.result = <<>>
    /\ last.op = "project_and_filter"
         => /\ LocatedFirst(last.name)
            /\ \A i \in 1..Len(last.names) : LocatedFirst(last.names[i])
            /\ (NotFound(last.name) \/ \E i \in 1..Len(last.names) : NotFound(last.names[i]))
                 => last.result = <<>>

\* a projection of a name that a second group declares again, over a table
\* whose first column holds other values than the second group's
C12_Witness ==
    /\ last.op = "project_one"
    /\ WellFormed(fs[last.src])
    /\ last.metadata.num_rows >= 2
    /\ \E o, p \in Occurrences(last.metadata, last.name) :
         /\ o[1] < p[1]
         /\ StoredColumns(fs[last.src], last.metadata, o[1] + 1)[o[2] + 1]
              # StoredColumns(fs[last.src], last.metadata, p[1] + 1)[p[2] + 1]

\* a project_and_filter whose projected names resolve and whose filter
\* column is declared nowhere
C12_NothingForUnknown ==
    /\ last.op = "project_and_filter"
    /\ last.names # <<>>
    /\ \A i \in 1..Len(last.names) : ~NotFound(last.names[i])
    /\ NotFound(last.name) /\ last.name # ""
    /\ last.metadata.num_rows >= 1
    /\ last.result = <<>>

\* the names a query command of main resolves: the requested ones and, with
\* a filter, the filter column
MainNames ==
    IF last.flt.present
    THEN Append(last.names, IF last.flt.column = "" THEN last.names[1] ELSE last.flt.column)
    ELSE last.names

\* a query command with a valid operation code that names an unknown column
\* or columns of more than one group
FailedQuery ==
    /\ last.op = "main_query"
    /\ last.flt.present => last.flt.operation \in FilterOps
    /\ ~OneGroup(last.metadata, MainNames)

\* C13: a query that fails (unknown column, columns spanning groups) returns
\* an empty result, prints nothing at all, not even a header line, and the
\* program ends with a non-zero status, on the single-column, multi-column,
\* filter and project+filter paths.
C13_FailedQuerySilentNonZero ==
    FailedQuery => /\ last.result = <<>>
                   /\ last.out = NoOutput
                   /\ last.status # 0

\* what the code does keep of it: the result of a failed query is empty, and
\* the multi-column paths print nothing
C13_FailedQueryEmpty ==
    FailedQuery => /\ last.result = <<>>
                   /\ (Len(last.names) > 1
                         \/ (last.flt.present /\ MainNames[Len(MainNames)] # last.names[1]))
                        => last.out = NoOutput

\* a failed single-column query prints the header line
C13_HeaderPrinted ==
    FailedQuery /\ last.out.header # <<>>

\* a failed multi-column query ends with status 0
C13_StatusZero ==
    FailedQuery /\ Len(last.names) > 1 /\ last.status = 0

----------------------------------------------------------------------------
(* Metadata trailer: claims C14 and C15 *)

\* add_row or the converter returned after writing its table
Wrote == last.op \in {"add_row", "convert"} /\ last.err = ""

\* the fields of two metadata values are the same
SameFields(m, e) ==
    /\ m.num_rows = e.num_rows
    /\ m.num_groups = e.num_groups
    /\ Len(m.groups) = Len(e.groups)
    /\ \A g \in 1..Len(e.groups) :
         /\ m.groups[g].num_columns = e.groups[g].num_columns
         /\ m.groups[g].offset = e.groups[g].offset
         /\ Len(m.groups[g].columns) = Len(e.groups[g].columns)
         /\ \A c \in 1..Len(e.groups[g].columns) :
              /\ m.groups[g].columns[c].column_name = e.groups[g].columns[c].column_name
              /\ m.groups[g].columns[c].column_type = e.groups[g].columns[c].column_type

\* C14: in every table file add_row or the CSV converter wrote, the last 4
\* bytes hold the byte length of the metadata text that ends where they
\* start, the file being the floats, that text and those 4 bytes; and
\* decoding the file returns the field values (num_rows, num_groups, each
\* group's num_columns, offset and column list) of the metadata encoded.
C14_TrailerAndRoundTrip ==
    Wrote =>
        LET f == fs[last.dst] IN
        /\ f.exists
        /\ f.trailer = <<TextLen(f.text.toks)>>
        /\ FileSize(f) = sizeof_float * Len(f.data) + TextLen(f.text.toks) + sizeof_int
        /\ Decoded(f) # EmptyMeta
        /\ SameFields(Decoded(f), last.new_metadata)

\* rows appended to a table the converter wrote from a header with an empty
\* name and a numeric one
C14_Witness ==
    /\ last.op = "add_row" /\ last.err = ""
    /\ last.new_metadata.num_rows >= 2
    /\ last.new_metadata.groups[1].num_columns = 2
    /\ last.new_metadata.groups[1].columns[1].column_name = ""
    /\ last.new_metadata.groups[1].columns[2].column_name = "1"

\* the converter wrote a table without columns: its column list is null
C14_NullColumns ==
    /\ last.op = "convert" /\ last.err = ""
    /\ last.new_metadata.groups[1].columns = <<>>
    /\ last.new_metadata.num_rows >= 1

\* the file lacks the bytes its last 4 bytes promise: it has fewer than 4
\* bytes, or its metadata_size is negative or more than the bytes before it
TooSmall(f) ==
    \/ FileSize(f) < sizeof_int
    \/ LastInt(f) < 0
    \/ sizeof_int + LastInt(f) > FileSize(f)

\* the metadata_size bytes before the last 4 are a well-formed text: in the
\* files of these runs, when they are the whole of a text a writer dumped
WellFormedText(f) ==
    /\ f.trailer # <<>>
    /\ f.trailer[1] = TextLen(f.text.toks)
    /\ \E t \in DecodeTables : f.text.toks = dump(Decoded(t))

\* C15: when the file is smaller than 4 + metadata_size bytes (shorter than
\* 4 bytes, or with a negative or an oversized metadata_size) or its
\* metadata text is not well-formed, extract_metadata returns no metadata
\* and main ends with a non-zero status, having printed nothing, run no
\* query and written no file.
C15_NoMetadataNoRun ==
    (last.op = "main" /\ last.pre[last.src].exists
       /\ (TooSmall(last.pre[last.src]) \/ ~WellFormedText(last.pre[last.src])))
        => /\ last.metadata = EmptyMeta
           /\ last.status # 0
           /\ last.out = NoOutput
           /\ last.ran = "nothing"
           /\ fs = last.pre

\* an add_row command on a file whose text is good and whose metadata_size
\* is larger than the file
C15_Witness ==
    /\ last.op = "main"
    /\ last.command.kind = "add_row"
    /\ \E t \in DecodeTables : last.pre[last.src].text = t.text
    /\ last.pre[last.src].trailer # <<>>
    /\ last.pre[last.src].trailer[1] > FileSize(last.pre[last.src])
    /\ last.status = 1

\* a query on a file of fewer than 4 bytes, metadata_size starting positive
C15_ShortFile ==
    /\ last.op = "main"
    /\ last.command.kind = "query"
    /\ last.pre[last.src].exists
    /\ FileSize(last.pre[last.src]) > 0
    /\ FileSize(last.pre[last.src]) < sizeof_int
    /\ last.uninit.metadata_size > 0
    /\ last.status = 1

\* a good file is decoded, and the command runs
C15_GoodFileRuns ==
    /\ last.op = "main"
    /\ last.pre[last.src] \in DecodeTables
    /\ last.metadata = Decoded(last.pre[last.src])
    /\ last.ran = "add_row"
    /\ fs # last.pre

----------------------------------------------------------------------------
(* Formatting: claim C16, checked under SpecFormat *)

\* scientific notation exactly when |value| >= 1e9, and in fixed notation
\* one fractional digit for an integral value and two otherwise
FormatRule ==
    /\ last.text.notation = (IF last.value.whole >= BILLION THEN "scientific" ELSE "fixed")
    /\ last.text.notation = "fixed"
         => last.text.precision = (IF last.value.quarters = 0 THEN 1 ELSE 2)

\* C16 as stated: the rule holds of every stored float, format(1e9) is
\* scientific, and format(999999999.0) and format(-999999999.0) are fixed.
C16_AsStated ==
    last.op = "format"
        => /\ FormatRule
           /\ last.x = Decimal(FALSE, BILLION, 0) => last.text.notation = "scientific"
           /\ (last.x.whole = BILLION - 1 /\ last.x.quarters = 0)
                => last.text.notation = "fixed"

\* C16 amended: the rule holds of every stored float; format(1e9) is
\* scientific, and so are format(999999999.0) and format(-999999999.0),
\* because the 32-bit float nearest to 999999999 is 1e9; the largest float
\* below 1e9, 999999936, and its negative are fixed, with one fractional digit.
C16_FormatOfFloat ==
    last.op = "format"
        => /\ FormatRule
           /\ last.x = Decimal(FALSE, BILLION, 0) => last.text.notation = "scientific"
           /\ (last.x.whole = BILLION - 1 /\ last.x.quarters = 0)
                => /\ last.value = Decimal(last.x.neg, BILLION, 0)
                   /\ last.text.notation = "scientific"
           /\ (last.x.whole = BILLION - FloatStep /\ last.x.quarters = 0)
                => /\ last.value = last.x
                   /\ last.text = [notation |-> "fixed", precision |-> 1]

\* format(-999999999.0)
C16_Witness ==
    /\ last.op = "format"
    /\ last.x = Decimal(TRUE, BILLION - 1, 0)
    /\ last.text.notation = "scientific"

\* a float with a fraction, rendered with two fractional digits
C16_TwoDigits ==
    /\ last.op = "format"
    /\ last.value.quarters = 1
    /\ last.text = [notation |-> "fixed", precision |-> 2]

----------------------------------------------------------------------------
(* Append twice: claim C17, checked under SpecAppend *)

\* the same group data, the same num_rows and the same group offsets
SameTable(f, g) ==
    /\ f.exists /\ g.exists
    /\ f.data = g.data
    /\ Decoded(f).num_rows = Decoded(g).num_rows
    /\ [i \in 1..Len(Decoded(f).groups) |-> Decoded(f).groups[i].offset]
         = [i \in 1..Len(Decoded(g).groups) |-> Decoded(g).groups[i].offset]

\* The rows just appended in one call, appended in two: the first k to the
\* table at mid, the others from there to the table at dst
AppendedInTwo(k, mid, dst) ==
    LET A     == SubSeq(last.rows, 1, k)
        B     == SubSeq(last.rows, k + 1, Len(last.rows))
        first == add_row(last.pre, last.metadata, last.src, mid, A)
    IN  add_row(first.files, first.new_metadata, mid, dst, B)

\* add_row has appended at least two rows to a well-formed table
AppendedTwoRows ==
    /\ Appended
    /\ WellFormed(last.pre[last.src])
    /\ Len(last.rows) >= 2

\* C17: appending A to a well-formed table and then B to the result makes
\* the table that appending A followed by B in one call makes, for every
\* way of cutting the rows into non-empty A and B and whatever paths the
\* calls write to.
C17_Compositional ==
    AppendedTwoRows
        => \A k \in 1..(Len(last.rows) - 1) : \A mid \in Paths : \A dst \in Paths :
              LET two == AppendedInTwo(k, mid, dst)
              IN  /\ two.err = ""
                  /\ SameTable(two.files[dst], fs[last.dst])

\* the same when no call writes to the path it reads from
C17_CompositionalElsewhere ==
    (AppendedTwoRows /\ last.dst # last.src)
        => \A k \in 1..(Len(last.rows) - 1) : \A mid \in Paths \ {last.src} :
             \A dst \in Paths \ {mid} :
              LET two == AppendedInTwo(k, mid, dst)
              IN  /\ two.err = ""
                  /\ two.files[dst] = fs[last.dst]

\* rows appended in one call to a table that had rows, in more than one group
C17_Witness ==
    /\ AppendedTwoRows
    /\ last.dst # last.src
    /\ last.metadata.num_rows >= 1
    /\ last.metadata.num_groups >= 2

\* the second of the two calls writes to the path it reads: the first
\* call's rows are lost
C17_SecondInPlace ==
    (AppendedTwoRows /\ last.dst # last.src)
        => \A mid \in Paths \ {last.src} :
              SameTable(AppendedInTwo(1, mid, mid).files[mid], fs[last.dst])

----------------------------------------------------------------------------
(* The converter's table: claim C18, checked under SpecConvert *)

\* the converter ran on a CSV file that opened and an output that opened
Converted ==
    /\ last.op = "convert"
    /\ last.csv.exists
    /\ last.dst \in Paths

\* a text that is not numeric: number_regex does not match it
NotNumeric(field) == field.kind = "word"

\* the field of a line under column c: the empty text when the line is short
Under(line, c) == IF c <= Len(line) THEN line[c] ELSE Word("")

\* what the table written for the lines of a CSV file is to be: the first
\* line is the header when one of its fields is not numeric, else it is data
\* under generated names; one group at offset 0, a float per header name
\* for every data line
ConvertedShape(f, lines) ==
    LET m         == Decoded(f)
        first_row == IF lines = <<>> THEN <<>> ELSE split_csv_line(lines[1])
        is_header == \E i \in 1..Len(first_row) : NotNumeric(first_row[i])
        names     == IF is_header THEN [i \in 1..Len(first_row) |-> first_row[i].s]
                     ELSE [i \in 1..Len(first_row) |-> "column_" \o ToString(i)]
        skipped   == IF is_header THEN 1 ELSE 0
    IN  /\ m # EmptyMeta
        /\ m.num_groups = 1
        /\ Len(m.groups) = 1
        /\ m.groups[1].offset = 0
        /\ m.groups[1].num_columns = Len(names)
        /\ \A i \in 1..Len(m.groups[1].columns) :
              m.groups[1].columns[i].column_name = names[i]
        /\ m.num_rows = Len(lines) - skipped
        /\ sizeof_float * Len(f.data) = m.num_rows * Len(names) * sizeof_float
        /\ \A r \in 1..m.num_rows : \A c \in 1..Len(names) :
              LET field == Under(lines[r + skipped], c)
              IN  f.data[(r - 1) * Len(names) + c]
                    = (IF NotNumeric(field) THEN ZeroFloat ELSE field.v)

\* C18: the converter always writes a well-formed single-group table:
\* num_groups = 1, offset 0, num_columns the number of header names,
\* num_rows the number of data lines, num_columns floats per data line with
\* 0.0 for a missing or non-numeric field and the fields beyond the header
\* dropped, a data region of num_rows * num_columns * 4 bytes; the first
\* line is the header if and only if one of its fields is not numeric.
C18_AlwaysSingleGroupTable ==
    Converted => ConvertedShape(fs[last.dst], last.csv.lines)

\* the same of the runs in which no data field under the header is a number
\* out of the range of double
C18_SingleGroupTableInRange ==
    (Converted /\ \A k \in 1..Len(last.csv.lines) : \A c \in 1..Len(last.csv.lines[k]) :
                     last.csv.lines[k][c].kind # "huge")
        => /\ last.err = ""
           /\ ConvertedShape(fs[last.dst], last.csv.lines)

\* a run that ends in std::stod's exception: the output is left empty
C18_Aborted ==
    /\ Converted
    /\ last.err = "abort"
    /\ fs[last.dst] = TruncatedFile

\* a header of two names, a short data line and a long one
C18_Witness ==
    /\ Converted
    /\ last.err = ""
    /\ Len(last.csv.lines) = 3
    /\ Len(split_csv_line(last.csv.lines[1])) = 2
    /\ \E i \in 1..2 : NotNumeric(last.csv.lines[1][i])
    /\ \E k \in 2..3 : Len(last.csv.lines[k]) < 2
    /\ \E k \in 2..3 : Len(last.csv.lines[k]) > 2

\* every table the converter writes is well-formed as the appender's are
C18_WellFormedWritten ==
    (Converted /\ last.err = "") => WellFormed(fs[last.dst])

====
